---- MODULE Spec2Model ----
(***************************************************************************)
(* noray: the homogeneous-coordinate arithmetic of a ray tracer.           *)
(*   src/src/lib.rs   Tetrad: one type, w = 1.0 for points, 0.0 for vectors*)
(*   src/src/math.rs  Point and Vector: two types, w fixed by constructor  *)
(* Every component is an f64.  The model keeps IEEE-754 binary arithmetic  *)
(* (round to nearest, ties to even, gradual underflow, signed zero,        *)
(* infinities, NaN) at a reduced width: MantBits bits of precision and     *)
(* exponents MinExp..MaxExp instead of binary64's 53 and -1022..1023.      *)
(***************************************************************************)
EXTENDS Integers, Sequences, FiniteSets

VARIABLES lib, hist

vars == <<lib, hist>>

\* ------------------------------------------------------------ bounds
\* Precision of the modelled float format, in bits (binary64: 53).
MantBits == 4
\* Largest exponent of the modelled float format (binary64: 1023).
MaxExp == 4
\* Longest session: the number of calls made one after the other.
MaxOps == 2

\* ------------------------------------------------------------ f64
RECURSIVE Pow2(_)
Pow2(n) == IF n = 0 THEN 1 ELSE 2 * Pow2(n - 1)

\* Smallest normal exponent, as IEEE-754 fixes it from the largest.
MinExp == 1 - MaxExp

\* Finite magnitudes are counted in units of the smallest subnormal,
\* 2^(MinExp - (MantBits - 1)).  OneU is 1.0 in these units.
OneU == Pow2((MantBits - 1) - MinExp)

\* Magnitudes below Radix units are subnormal or in the lowest binade: there
\* the representable ones are one unit apart.
Radix == Pow2(MantBits)

\* Spacing of the representable magnitudes around q.
RECURSIVE Ulp(_)
Ulp(q) == IF q < Radix THEN 1 ELSE 2 * Ulp(q \div 2)

\* Largest finite magnitude: (2 - 2^(1 - MantBits)) * 2^MaxExp.
MaxFin == (Radix - 1) * Pow2(MaxExp - MinExp)

Num(s, m) == [k |-> "num", s |-> s, m |-> m]
Inf(s) == [k |-> "inf", s |-> s, m |-> 0]
NaN == [k |-> "nan", s |-> 0, m |-> 0]

IsNaN(a) == a.k = "nan"
IsInf(a) == a.k = "inf"
IsNum(a) == a.k = "num"
IsZero(a) == a.k = "num" /\ a.m = 0

\* The magnitude num/den (den > 0), in units, rounded to nearest, ties to
\* even, with an unbounded exponent.
RoundMag(num, den) ==
  LET q == num \div den
      u == Ulp(q)
      lo == q - (q % u)
      twice == 2 * (num - lo * den)
      half == u * den
  IN  IF twice < half THEN lo
      ELSE IF twice > half THEN lo + u
      ELSE IF (lo \div u) % 2 = 0 THEN lo ELSE lo + u

\* The float nearest to (-1)^s * num/den: overflow gives an infinity.
Round(s, num, den) ==
  LET r == RoundMag(num, den)
  IN  IF r > MaxFin THEN Inf(s) ELSE Num(s, r)

\* The signed integer a finite float stands for, in units.
Val(a) == IF a.s = 1 THEN 0 - a.m ELSE a.m

Xor(s, t) == IF s = t THEN 0 ELSE 1

\* f64 literals and the integers the sessions use as inputs.
Zero == Num(0, 0)
One == Num(0, OneU)
Lit(n) == IF n < 0 THEN Round(1, (0 - n) * OneU, 1) ELSE Round(0, n * OneU, 1)

\* std::f64::EPSILON: the gap between 1.0 and the next float.
EPSILON == Num(0, OneU \div Pow2(MantBits - 1))

\* -a: the sign bit flips (also on zeros and infinities).
FNeg(a) == IF IsNaN(a) THEN NaN ELSE [a EXCEPT !.s = 1 - a.s]

\* a.abs()
FAbs(a) == IF IsNaN(a) THEN NaN ELSE [a EXCEPT !.s = 0]

\* a + b
FAdd(a, b) ==
  IF IsNaN(a) \/ IsNaN(b) THEN NaN
  ELSE IF IsInf(a) /\ IsInf(b) THEN (IF a.s = b.s THEN a ELSE NaN)
  ELSE IF IsInf(a) THEN a
  ELSE IF IsInf(b) THEN b
  ELSE LET t == Val(a) + Val(b)
       IN  IF t = 0 THEN Num(IF a.s = 1 /\ b.s = 1 THEN 1 ELSE 0, 0)
           ELSE IF t < 0 THEN Round(1, 0 - t, 1)
           ELSE Round(0, t, 1)

\* a - b
FSub(a, b) == FAdd(a, FNeg(b))

\* a * b
FMul(a, b) ==
  IF IsNaN(a) \/ IsNaN(b) THEN NaN
  ELSE IF (IsInf(a) /\ IsZero(b)) \/ (IsZero(a) /\ IsInf(b)) THEN NaN
  ELSE IF IsInf(a) \/ IsInf(b) THEN Inf(Xor(a.s, b.s))
  ELSE Round(Xor(a.s, b.s), a.m * b.m, OneU)

\* a / b
FDiv(a, b) ==
  IF IsNaN(a) \/ IsNaN(b) THEN NaN
  ELSE IF (IsInf(a) /\ IsInf(b)) \/ (IsZero(a) /\ IsZero(b)) THEN NaN
  ELSE IF IsInf(a) \/ IsZero(b) THEN Inf(Xor(a.s, b.s))
  ELSE IF IsInf(b) THEN Num(Xor(a.s, b.s), 0)
  ELSE Round(Xor(a.s, b.s), a.m * OneU, b.m)

RECURSIVE ISqrt(_)
ISqrt(n) ==
  IF n < 2 THEN n
  ELSE LET r == 2 * ISqrt(n \div 4)
       IN  IF (r + 1) * (r + 1) <= n THEN r + 1 ELSE r

\* a.sqrt(), correctly rounded
FSqrt(a) ==
  IF IsNaN(a) THEN NaN
  ELSE IF IsZero(a) THEN a
  ELSE IF a.s = 1 THEN NaN
  ELSE IF IsInf(a) THEN a
  ELSE LET n == a.m * OneU
           q == ISqrt(n)
           u == Ulp(q)
           lo == q - (q % u)
           mid2 == (2 * lo + u) * (2 * lo + u)
       IN  IF lo * lo = n THEN Num(0, lo)
           ELSE IF 4 * n < mid2 THEN Num(0, lo)
           ELSE IF 4 * n > mid2 THEN Num(0, lo + u)
           ELSE IF (lo \div u) % 2 = 0 THEN Num(0, lo) ELSE Num(0, lo + u)

\* a == b on f64: NaN equals nothing, and -0.0 equals 0.0.
FEq(a, b) ==
  /\ ~IsNaN(a)
  /\ ~IsNaN(b)
  /\ \/ a = b
     \/ IsZero(a) /\ IsZero(b)

\* a < b on f64: false when either is NaN.
FLt(a, b) ==
  /\ ~IsNaN(a)
  /\ ~IsNaN(b)
  /\ IF IsInf(a) THEN a.s = 1 /\ ~(IsInf(b) /\ b.s = 1)
     ELSE IF IsInf(b) THEN b.s = 0
     ELSE Val(a) < Val(b)

\* ------------------------------------------------------------ lib.rs
\* struct Tetrad { x, y, z, w }
Tetrad_new(x, y, z, w) == [ty |-> "Tetrad", x |-> x, y |-> y, z |-> z, w |-> w]

Tetrad_point(x, y, z) == Tetrad_new(x, y, z, One)

Tetrad_vector(x, y, z) == Tetrad_new(x, y, z, Zero)

\* Tetrad_is_point comparing w with 0.0.
Tetrad_is_point_w0(self) == FLt(FAbs(FSub(self.w, Zero)), EPSILON)

Tetrad_is_point(self) == FLt(FAbs(FSub(self.w, One)), EPSILON)

Tetrad_is_vector(self) == FLt(FAbs(FSub(self.w, Zero)), EPSILON)

Tetrad_scale(self, factor) ==
  Tetrad_new(FMul(self.x, factor), FMul(self.y, factor),
             FMul(self.z, factor), FMul(self.w, factor))

Tetrad_scale_inverse(self, factor) ==
  Tetrad_new(FDiv(self.x, factor), FDiv(self.y, factor),
             FDiv(self.z, factor), FDiv(self.w, factor))

Tetrad_magnitude(self) ==
  FSqrt(FAdd(FAdd(FAdd(FMul(self.x, self.x), FMul(self.y, self.y)),
                  FMul(self.z, self.z)),
             FMul(self.w, self.w)))

Tetrad_normalize(self) == Tetrad_scale_inverse(self, Tetrad_magnitude(self))

\* Tetrad_dot multiplying self.z by rhs.y.
Tetrad_dot_zy(self, rhs) ==
  FAdd(FAdd(FAdd(FMul(self.x, rhs.x), FMul(self.y, rhs.y)),
            FMul(self.z, rhs.y)),
       FMul(self.w, rhs.w))

Tetrad_dot(self, rhs) ==
  FAdd(FAdd(FAdd(FMul(self.x, rhs.x), FMul(self.y, rhs.y)),
            FMul(self.z, rhs.z)),
       FMul(self.w, rhs.w))

\* Tetrad_cross keeping the left operand's discriminant.
Tetrad_cross_keepw(self, rhs) ==
  Tetrad_new(FSub(FMul(self.y, rhs.z), FMul(self.z, rhs.y)),
             FSub(FMul(self.z, rhs.x), FMul(self.x, rhs.z)),
             FSub(FMul(self.x, rhs.y), FMul(self.y, rhs.x)),
             self.w)

Tetrad_cross(self, rhs) ==
  Tetrad_vector(FSub(FMul(self.y, rhs.z), FMul(self.z, rhs.y)),
                FSub(FMul(self.z, rhs.x), FMul(self.x, rhs.z)),
                FSub(FMul(self.x, rhs.y), FMul(self.y, rhs.x)))

Tetrad_add(self, rhs) ==
  Tetrad_new(FAdd(self.x, rhs.x), FAdd(self.y, rhs.y),
             FAdd(self.z, rhs.z), FAdd(self.w, rhs.w))

Tetrad_neg(self) ==
  Tetrad_new(FNeg(self.x), FNeg(self.y), FNeg(self.z), FNeg(self.w))

\* Tetrad_sub adding the discriminants.
Tetrad_sub_wplus(self, rhs) ==
  Tetrad_new(FSub(self.x, rhs.x), FSub(self.y, rhs.y),
             FSub(self.z, rhs.z), FAdd(self.w, rhs.w))

Tetrad_sub(self, rhs) ==
  Tetrad_new(FSub(self.x, rhs.x), FSub(self.y, rhs.y),
             FSub(self.z, rhs.z), FSub(self.w, rhs.w))

\* #[derive(PartialEq)]: field by field, with f64's ==.
Tetrad_eq(self, other) ==
  /\ FEq(self.x, other.x)
  /\ FEq(self.y, other.y)
  /\ FEq(self.z, other.z)
  /\ FEq(self.w, other.w)

\* ------------------------------------------------------------ math.rs
\* struct Point { x, y, z, w }: the constructor is the only way to build one.
Point_new(x, y, z) == [ty |-> "Point", x |-> x, y |-> y, z |-> z, w |-> One]

\* Vector_new with the point's discriminant.
Vector_new_w1(x, y, z) == [ty |-> "Vector", x |-> x, y |-> y, z |-> z, w |-> One]

\* struct Vector { x, y, z, w }
Vector_new(x, y, z) == [ty |-> "Vector", x |-> x, y |-> y, z |-> z, w |-> Zero]

Vector_magnitude(self) ==
  FSqrt(FAdd(FAdd(FAdd(FMul(self.x, self.x), FMul(self.y, self.y)),
                  FMul(self.z, self.z)),
             FMul(self.w, self.w)))

\* impl Div<f64> for &Vector
Vector_div(self, rhs) ==
  Vector_new(FDiv(self.x, rhs), FDiv(self.y, rhs), FDiv(self.z, rhs))

\* impl Mul<f64> for &Vector
Vector_mul(self, rhs) ==
  Vector_new(FMul(self.x, rhs), FMul(self.y, rhs), FMul(self.z, rhs))

Vector_normalize(self) == Vector_div(self, Vector_magnitude(self))

Vector_dot(self, rhs) ==
  FAdd(FAdd(FAdd(FMul(self.x, rhs.x), FMul(self.y, rhs.y)),
            FMul(self.z, rhs.z)),
       FMul(self.w, rhs.w))

\* Vector_cross adding the two products of y.
Vector_cross_yplus(self, rhs) ==
  Vector_new(FSub(FMul(self.y, rhs.z), FMul(self.z, rhs.y)),
             FAdd(FMul(self.z, rhs.x), FMul(self.x, rhs.z)),
             FSub(FMul(self.x, rhs.y), FMul(self.y, rhs.x)))

Vector_cross(self, rhs) ==
  Vector_new(FSub(FMul(self.y, rhs.z), FMul(self.z, rhs.y)),
             FSub(FMul(self.z, rhs.x), FMul(self.x, rhs.z)),
             FSub(FMul(self.x, rhs.y), FMul(self.y, rhs.x)))

\* impl Add<Vector> for Vector
Vector_add(self, rhs) ==
  Vector_new(FAdd(self.x, rhs.x), FAdd(self.y, rhs.y), FAdd(self.z, rhs.z))

\* impl Add<Vector> for Point
Point_add(self, rhs) ==
  Point_new(FAdd(self.x, rhs.x), FAdd(self.y, rhs.y), FAdd(self.z, rhs.z))

\* impl Neg for Vector
Vector_neg(self) == Vector_new(FNeg(self.x), FNeg(self.y), FNeg(self.z))

\* Point_sub_Point with the operands of z the other way round.
Point_sub_Point_zswap(self, rhs) ==
  Vector_new(FSub(self.x, rhs.x), FSub(self.y, rhs.y), FSub(rhs.z, self.z))

\* impl Sub<Point> for Point
Point_sub_Point(self, rhs) ==
  Vector_new(FSub(self.x, rhs.x), FSub(self.y, rhs.y), FSub(self.z, rhs.z))

\* Point_sub_Vector adding y.
Point_sub_Vector_yplus(self, rhs) ==
  Point_new(FSub(self.x, rhs.x), FAdd(self.y, rhs.y), FSub(self.z, rhs.z))

\* impl Sub<Vector> for Point
Point_sub_Vector(self, rhs) ==
  Point_new(FSub(self.x, rhs.x), FSub(self.y, rhs.y), FSub(self.z, rhs.z))

\* impl Sub<Vector> for Vector
Vector_sub(self, rhs) ==
  Vector_new(FSub(self.x, rhs.x), FSub(self.y, rhs.y), FSub(self.z, rhs.z))

\* #[derive(PartialEq)] on Point: field by field, with f64's ==.
Point_eq(self, other) ==
  /\ FEq(self.x, other.x)
  /\ FEq(self.y, other.y)
  /\ FEq(self.z, other.z)
  /\ FEq(self.w, other.w)

\* #[derive(PartialEq)] on Vector
Vector_eq(self, other) ==
  /\ FEq(self.x, other.x)
  /\ FEq(self.y, other.y)
  /\ FEq(self.z, other.z)
  /\ FEq(self.w, other.w)

\* ------------------------------------------------------------ sessions
\* A session is a client of one of the two modules making calls one after
\* the other.  Its first call is made on freshly constructed values; a later
\* call is made on values the session already holds: the operands and the
\* results of its earlier calls.
\*
\* The coordinates the sessions construct values from: two triples of the
\* tests and one holding the largest finite float and the smallest positive
\* one.  Infinities, NaN and -0.0 come out of the arithmetic.
Triples ==
  { <<Lit(1), Lit(2), Lit(3)>>,
    <<Lit(3), Lit(-2), Lit(5)>>,
    <<Num(0, MaxFin), Num(0, MaxFin), Num(0, 1)>> }

Factors == {Lit(2), Zero}

\* The place of an operand or result a call does not have.
None == [ty |-> "none", x |-> Zero, y |-> Zero, z |-> Zero, w |-> Zero]

Fresh(ty) ==
  CASE ty = "Tetrad" ->
         {Tetrad_point(t[1], t[2], t[3]) : t \in Triples}
           \cup {Tetrad_vector(t[1], t[2], t[3]) : t \in Triples}
    [] ty = "Point" -> {Point_new(t[1], t[2], t[3]) : t \in Triples}
    [] ty = "Vector" -> {Vector_new(t[1], t[2], t[3]) : t \in Triples}

Held(h) == UNION {{h[i].a, h[i].b, h[i].out} : i \in DOMAIN h}

\* The values of type ty a call can be made on.
Operands(ty) ==
  IF hist = <<>> THEN Fresh(ty) ELSE {v \in Held(hist) : v.ty = ty}

\* The f64 arguments a call can be given: literals, and the f64 results
\* of earlier calls.
Scalars ==
  Factors \cup {hist[i].num : i \in {j \in DOMAIN hist : hist[j].ret = "f64"}}

\* One call: the operation, its operands, what it returned.
Call(op, a, b, f, ret, out, num, flag) ==
  [op |-> op, a |-> a, b |-> b, f |-> f,
   ret |-> ret, out |-> out, num |-> num, flag |-> flag]

RetValue(op, a, b, f, out) == Call(op, a, b, f, out.ty, out, Zero, FALSE)
RetF64(op, a, b, num) == Call(op, a, b, Zero, "f64", None, num, FALSE)
RetBool(op, a, flag) == Call(op, a, None, Zero, "bool", None, Zero, flag)

\* A session of module m can make one more call.
CanCall(m) == lib = m /\ Len(hist) < MaxOps

Record(c) == hist' = Append(hist, c) /\ UNCHANGED lib

\* ---- calls on lib.rs
Do_Tetrad_is_point ==
  /\ CanCall("lib.rs")
  /\ \E t \in Operands("Tetrad") :
       Record(RetBool("Tetrad::is_point", t, Tetrad_is_point(t)))

Do_Tetrad_is_vector ==
  /\ CanCall("lib.rs")
  /\ \E t \in Operands("Tetrad") :
       Record(RetBool("Tetrad::is_vector", t, Tetrad_is_vector(t)))

Do_Tetrad_scale ==
  /\ CanCall("lib.rs")
  /\ \E t \in Operands("Tetrad"), f \in Scalars :
       Record(RetValue("Tetrad::scale", t, None, f, Tetrad_scale(t, f)))

Do_Tetrad_scale_inverse ==
  /\ CanCall("lib.rs")
  /\ \E t \in Operands("Tetrad"), f \in Scalars :
       Record(RetValue("Tetrad::scale_inverse", t, None, f,
                       Tetrad_scale_inverse(t, f)))

Do_Tetrad_magnitude ==
  /\ CanCall("lib.rs")
  /\ \E t \in Operands("Tetrad") :
       Record(RetF64("Tetrad::magnitude", t, None, Tetrad_magnitude(t)))

Do_Tetrad_normalize ==
  /\ CanCall("lib.rs")
  /\ \E t \in Operands("Tetrad") :
       Record(RetValue("Tetrad::normalize", t, None, Zero, Tetrad_normalize(t)))

Do_Tetrad_dot ==
  /\ CanCall("lib.rs")
  /\ \E t \in Operands("Tetrad"), r \in Operands("Tetrad") :
       Record(RetF64("Tetrad::dot", t, r, Tetrad_dot(t, r)))

Do_Tetrad_cross ==
  /\ CanCall("lib.rs")
  /\ \E t \in Operands("Tetrad"), r \in Operands("Tetrad") :
       Record(RetValue("Tetrad::cross", t, r, Zero, Tetrad_cross(t, r)))

Do_Tetrad_add ==
  /\ CanCall("lib.rs")
  /\ \E t \in Operands("Tetrad"), r \in Operands("Tetrad") :
       Record(RetValue("Tetrad::add", t, r, Zero, Tetrad_add(t, r)))

Do_Tetrad_neg ==
  /\ CanCall("lib.rs")
  /\ \E t \in Operands("Tetrad") :
       Record(RetValue("Tetrad::neg", t, None, Zero, Tetrad_neg(t)))

Do_Tetrad_sub ==
  /\ CanCall("lib.rs")
  /\ \E t \in Operands("Tetrad"), r \in Operands("Tetrad") :
       Record(RetValue("Tetrad::sub", t, r, Zero, Tetrad_sub(t, r)))

\* ---- calls on math.rs
Do_Vector_magnitude ==
  /\ CanCall("math.rs")
  /\ \E v \in Operands("Vector") :
       Record(RetF64("Vector::magnitude", v, None, Vector_magnitude(v)))

Do_Vector_normalize ==
  /\ CanCall("math.rs")
  /\ \E v \in Operands("Vector") :
       Record(RetValue("Vector::normalize", v, None, Zero, Vector_normalize(v)))

Do_Vector_dot ==
  /\ CanCall("math.rs")
  /\ \E v \in Operands("Vector"), r \in Operands("Vector") :
       Record(RetF64("Vector::dot", v, r, Vector_dot(v, r)))

Do_Vector_cross ==
  /\ CanCall("math.rs")
  /\ \E v \in Operands("Vector"), r \in Operands("Vector") :
       Record(RetValue("Vector::cross", v, r, Zero, Vector_cross(v, r)))

Do_Vector_add ==
  /\ CanCall("math.rs")
  /\ \E v \in Operands("Vector"), r \in Operands("Vector") :
       Record(RetValue("Vector + Vector", v, r, Zero, Vector_add(v, r)))

Do_Point_add ==
  /\ CanCall("math.rs")
  /\ \E p \in Operands("Point"), r \in Operands("Vector") :
       Record(RetValue("Point + Vector", p, r, Zero, Point_add(p, r)))

Do_Vector_div ==
  /\ CanCall("math.rs")
  /\ \E v \in Operands("Vector"), f \in Scalars :
       Record(RetValue("&Vector / f64", v, None, f, Vector_div(v, f)))

Do_Vector_mul ==
  /\ CanCall("math.rs")
  /\ \E v \in Operands("Vector"), f \in Scalars :
       Record(RetValue("&Vector * f64", v, None, f, Vector_mul(v, f)))

Do_Vector_neg ==
  /\ CanCall("math.rs")
  /\ \E v \in Operands("Vector") :
       Record(RetValue("-Vector", v, None, Zero, Vector_neg(v)))

Do_Point_sub_Point ==
  /\ CanCall("math.rs")
  /\ \E p \in Operands("Point"), r \in Operands("Point") :
       Record(RetValue("Point - Point", p, r, Zero, Point_sub_Point(p, r)))

Do_Point_sub_Vector ==
  /\ CanCall("math.rs")
  /\ \E p \in Operands("Point"), r \in Operands("Vector") :
       Record(RetValue("Point - Vector", p, r, Zero, Point_sub_Vector(p, r)))

Do_Vector_sub ==
  /\ CanCall("math.rs")
  /\ \E v \in Operands("Vector"), r \in Operands("Vector") :
       Record(RetValue("Vector - Vector", v, r, Zero, Vector_sub(v, r)))

\* ------------------------------------------------------------ specification
Init ==
  /\ lib \in {"lib.rs", "math.rs"}
  /\ hist = <<>>

Next ==
  \/ Do_Tetrad_is_point
  \/ Do_Tetrad_is_vector
  \/ Do_Tetrad_scale
  \/ Do_Tetrad_scale_inverse
  \/ Do_Tetrad_magnitude
  \/ Do_Tetrad_normalize
  \/ Do_Tetrad_dot
  \/ Do_Tetrad_cross
  \/ Do_Tetrad_add
  \/ Do_Tetrad_neg
  \/ Do_Tetrad_sub
  \/ Do_Vector_magnitude
  \/ Do_Vector_normalize
  \/ Do_Vector_dot
  \/ Do_Vector_cross
  \/ Do_Vector_add
  \/ Do_Point_add
  \/ Do_Vector_div
  \/ Do_Vector_mul
  \/ Do_Vector_neg
  \/ Do_Point_sub_Point
  \/ Do_Point_sub_Vector
  \/ Do_Vector_sub

Spec == Init /\ [][Next]_vars

\* ------------------------------------------------------------ color.rs
RGB_new(r, g, b) == [ty |-> "RGB", r |-> r, g |-> g, b |-> b]

RGB_add(self, rhs) ==
  RGB_new(FAdd(self.r, rhs.r), FAdd(self.g, rhs.g), FAdd(self.b, rhs.b))

RGB_sub(self, rhs) ==
  RGB_new(FSub(self.r, rhs.r), FSub(self.g, rhs.g), FSub(self.b, rhs.b))

RGB_mul_f64(self, rhs) ==
  RGB_new(FMul(self.r, rhs), FMul(self.g, rhs), FMul(self.b, rhs))

\* RGB_mul_RGB multiplying every component by rhs.r.
RGB_mul_RGB_byred(self, rhs) ==
  RGB_new(FMul(self.r, rhs.r), FMul(self.g, rhs.r), FMul(self.b, rhs.r))

RGB_mul_RGB(self, rhs) ==
  RGB_new(FMul(self.r, rhs.r), FMul(self.g, rhs.g), FMul(self.b, rhs.b))

\* #[derive(PartialEq)] on RGB.
RGB_eq(self, other) ==
  /\ FEq(self.r, other.r)
  /\ FEq(self.g, other.g)
  /\ FEq(self.b, other.b)

\* The components the sessions construct colors from: a color within
\* [0, 1], one above 1.0, and one with a negative component, the largest
\* finite float and the smallest positive one.
Shades ==
  { <<One, Num(0, OneU \div 2), Num(0, OneU \div 4)>>,
    <<Num(0, OneU \div 2), One, Lit(2)>>,
    <<Lit(-1), Num(0, MaxFin), Num(0, 1)>> }

\* The operators take their operands by value, and RGB is neither Copy nor
\* Clone: a call is made on colors built by RGB::new or returned by an
\* earlier call.
Colors ==
  {RGB_new(t[1], t[2], t[3]) : t \in Shades}
    \cup {hist[i].out : i \in DOMAIN hist}

Do_RGB_add ==
  /\ CanCall("color.rs")
  /\ \E c \in Colors, d \in Colors :
       Record(RetValue("RGB + RGB", c, d, Zero, RGB_add(c, d)))

Do_RGB_sub ==
  /\ CanCall("color.rs")
  /\ \E c \in Colors, d \in Colors :
       Record(RetValue("RGB - RGB", c, d, Zero, RGB_sub(c, d)))

Do_RGB_mul_f64 ==
  /\ CanCall("color.rs")
  /\ \E c \in Colors, f \in Factors :
       Record(RetValue("RGB * f64", c, None, f, RGB_mul_f64(c, f)))

Do_RGB_mul_RGB ==
  /\ CanCall("color.rs")
  /\ \E c \in Colors, d \in Colors :
       Record(RetValue("RGB * RGB", c, d, Zero, RGB_mul_RGB(c, d)))

InitColor ==
  /\ lib = "color.rs"
  /\ hist = <<>>

NextColor ==
  \/ Do_RGB_add
  \/ Do_RGB_sub
  \/ Do_RGB_mul_f64
  \/ Do_RGB_mul_RGB

SpecColor == InitColor /\ [][NextColor]_vars

\* ------------------------------------------------------------ borrows
\* The methods of Tetrad and Vector, and * and / on &Vector, take their
\* receiver and their argument by shared reference.  The caller keeps both
\* places; a session of borrows makes its later calls on what those places
\* hold after the earlier ones.

\* What a place lent to a call through & holds negated in its first field.
Lent_negated(v) == [v EXCEPT !.x = FNeg(v.x)]

\* What a place lent to a call through & holds when the call returns: no
\* body assigns to a field of self or of rhs.
Lent(v) == v

\* A call with the contents of the two lent places after it.
Borrow(c) ==
  [op |-> c.op, a |-> c.a, b |-> c.b, f |-> c.f,
   ret |-> c.ret, out |-> c.out, num |-> c.num, flag |-> c.flag,
   a2 |-> Lent(c.a), b2 |-> Lent(c.b)]

\* The places of type ty the session can lend.
Places(ty) ==
  IF hist = <<>> THEN Fresh(ty)
  ELSE {v \in UNION {{hist[i].a2, hist[i].b2} : i \in DOMAIN hist} :
          v.ty = ty}

Borrow_Tetrad_scale ==
  /\ CanCall("lib.rs")
  /\ \E t \in Places("Tetrad"), f \in Scalars :
       Record(Borrow(RetValue("Tetrad::scale", t, None, f,
                              Tetrad_scale(t, f))))

Borrow_Tetrad_scale_inverse ==
  /\ CanCall("lib.rs")
  /\ \E t \in Places("Tetrad"), f \in Scalars :
       Record(Borrow(RetValue("Tetrad::scale_inverse", t, None, f,
                              Tetrad_scale_inverse(t, f))))

Borrow_Tetrad_magnitude ==
  /\ CanCall("lib.rs")
  /\ \E t \in Places("Tetrad") :
       Record(Borrow(RetF64("Tetrad::magnitude", t, None,
                            Tetrad_magnitude(t))))

Borrow_Tetrad_normalize ==
  /\ CanCall("lib.rs")
  /\ \E t \in Places("Tetrad") :
       Record(Borrow(RetValue("Tetrad::normalize", t, None, Zero,
                              Tetrad_normalize(t))))

Borrow_Tetrad_dot ==
  /\ CanCall("lib.rs")
  /\ \E t \in Places("Tetrad"), r \in Places("Tetrad") :
       Record(Borrow(RetF64("Tetrad::dot", t, r, Tetrad_dot(t, r))))

Borrow_Tetrad_cross ==
  /\ CanCall("lib.rs")
  /\ \E t \in Places("Tetrad"), r \in Places("Tetrad") :
       Record(Borrow(RetValue("Tetrad::cross", t, r, Zero,
                              Tetrad_cross(t, r))))

Borrow_Vector_magnitude ==
  /\ CanCall("math.rs")
  /\ \E v \in Places("Vector") :
       Record(Borrow(RetF64("Vector::magnitude", v, None,
                            Vector_magnitude(v))))

Borrow_Vector_normalize ==
  /\ CanCall("math.rs")
  /\ \E v \in Places("Vector") :
       Record(Borrow(RetValue("Vector::normalize", v, None, Zero,
                              Vector_normalize(v))))

Borrow_Vector_dot ==
  /\ CanCall("math.rs")
  /\ \E v \in Places("Vector"), r \in Places("Vector") :
       Record(Borrow(RetF64("Vector::dot", v, r, Vector_dot(v, r))))

Borrow_Vector_cross ==
  /\ CanCall("math.rs")
  /\ \E v \in Places("Vector"), r \in Places("Vector") :
       Record(Borrow(RetValue("Vector::cross", v, r, Zero,
                              Vector_cross(v, r))))

Borrow_Vector_div ==
  /\ CanCall("math.rs")
  /\ \E v \in Places("Vector"), f \in Scalars :
       Record(Borrow(RetValue("&Vector / f64", v, None, f,
                              Vector_div(v, f))))

Borrow_Vector_mul ==
  /\ CanCall("math.rs")
  /\ \E v \in Places("Vector"), f \in Scalars :
       Record(Borrow(RetValue("&Vector * f64", v, None, f,
                              Vector_mul(v, f))))

NextBorrow ==
  \/ Borrow_Tetrad_scale
  \/ Borrow_Tetrad_scale_inverse
  \/ Borrow_Tetrad_magnitude
  \/ Borrow_Tetrad_normalize
  \/ Borrow_Tetrad_dot
  \/ Borrow_Tetrad_cross
  \/ Borrow_Vector_magnitude
  \/ Borrow_Vector_normalize
  \/ Borrow_Vector_dot
  \/ Borrow_Vector_cross
  \/ Borrow_Vector_div
  \/ Borrow_Vector_mul

SpecBorrow == Init /\ [][NextBorrow]_vars

\* ------------------------------------------------------------ normalize
\* normalize and magnitude as functions of one vector: the session builds a
\* vector from three coordinates, then calls normalize and magnitude on the
\* vectors it holds.

\* The coordinates: zero, the smallest positive float, the smallest normal
\* float, fractions, the integers of the tests, the largest finite float.
Coords ==
  { Zero, Num(0, 1), Num(0, Radix \div 2),
    Num(0, OneU \div 2), Num(0, 3 * (OneU \div 8)),
    One, Lit(-2), Lit(3), Lit(4), Num(0, MaxFin) }

\* The session holds a vector and can make one more call on it.
CanMeasure(m) == lib = m /\ hist # <<>> /\ Len(hist) <= MaxOps

Measure_Tetrad_normalize ==
  /\ CanMeasure("lib.rs")
  /\ \E t \in Operands("Tetrad") :
       Record(RetValue("Tetrad::normalize", t, None, Zero,
                       Tetrad_normalize(t)))

Measure_Tetrad_magnitude ==
  /\ CanMeasure("lib.rs")
  /\ \E t \in Operands("Tetrad") :
       Record(RetF64("Tetrad::magnitude", t, None, Tetrad_magnitude(t)))

Measure_Vector_normalize ==
  /\ CanMeasure("math.rs")
  /\ \E v \in Operands("Vector") :
       Record(RetValue("Vector::normalize", v, None, Zero,
                       Vector_normalize(v)))

Measure_Vector_magnitude ==
  /\ CanMeasure("math.rs")
  /\ \E v \in Operands("Vector") :
       Record(RetF64("Vector::magnitude", v, None, Vector_magnitude(v)))

InitMeasure ==
  \E x \in Coords, y \in Coords, z \in Coords :
    \/ /\ lib = "lib.rs"
       /\ hist = <<RetValue("Tetrad::vector", None, None, Zero,
                            Tetrad_vector(x, y, z))>>
    \/ /\ lib = "math.rs"
       /\ hist = <<RetValue("Vector::new", None, None, Zero,
                            Vector_new(x, y, z))>>

NextMeasure ==
  \/ Measure_Tetrad_normalize
  \/ Measure_Tetrad_magnitude
  \/ Measure_Vector_normalize
  \/ Measure_Vector_magnitude

SpecMeasure == InitMeasure /\ [][NextMeasure]_vars

\* ------------------------------------------------------------ claims
Idx == DOMAIN hist

FreshPoints == {Tetrad_point(t[1], t[2], t[3]) : t \in Triples}
FreshVectors == {Tetrad_vector(t[1], t[2], t[3]) : t \in Triples}

\* a + b is computed exactly: finite operands, a finite sum, no rounding.
ExactAdd(a, b) ==
  /\ IsNum(a)
  /\ IsNum(b)
  /\ IsNum(FAdd(a, b))
  /\ Val(FAdd(a, b)) = Val(a) + Val(b)

\* a - b is computed exactly.
ExactSub(a, b) ==
  /\ IsNum(a)
  /\ IsNum(b)
  /\ IsNum(FSub(a, b))
  /\ Val(FSub(a, b)) = Val(a) - Val(b)

\* The same number: equal under f64's ==, or NaN on both sides.
SameF64(a, b) == FEq(a, b) \/ (IsNaN(a) /\ IsNaN(b))

HasNaN(v) == IsNaN(v.x) \/ IsNaN(v.y) \/ IsNaN(v.z) \/ IsNaN(v.w)

\* C1: in math.rs every Point a session holds, constructed or returned by
\* any sequence of the offered operations, has w exactly 1.0, and every
\* Vector has w exactly 0.0.
C1_WFixedByType ==
  \A v \in Held(hist) :
    /\ v.ty = "Point" => v.w = One
    /\ v.ty = "Vector" => v.w = Zero

\* C1's case: a displacement Point - Point fed back into Point + Vector.
C1_Witness ==
  \E i \in Idx, j \in Idx :
    /\ i < j
    /\ hist[i].op = "Point - Point"
    /\ hist[j].op = "Point + Vector"
    /\ hist[j].b = hist[i].out
    /\ hist[i].out.ty = "Vector"
    /\ hist[j].out.ty = "Point"

\* C2: is_point() is true and is_vector() false of every Tetrad::point(x,y,z),
\* is_vector() is true and is_point() false of every Tetrad::vector(x,y,z),
\* and no Tetrad a session holds satisfies both.
C2_PointXorVector ==
  /\ \A i \in Idx :
       /\ hist[i].op = "Tetrad::is_point" /\ hist[i].a \in FreshPoints
            => hist[i].flag
       /\ hist[i].op = "Tetrad::is_vector" /\ hist[i].a \in FreshPoints
            => ~hist[i].flag
       /\ hist[i].op = "Tetrad::is_vector" /\ hist[i].a \in FreshVectors
            => hist[i].flag
       /\ hist[i].op = "Tetrad::is_point" /\ hist[i].a \in FreshVectors
            => ~hist[i].flag
  /\ \A i \in Idx, j \in Idx :
       /\ hist[i].op = "Tetrad::is_point"
       /\ hist[j].op = "Tetrad::is_vector"
       /\ hist[i].a = hist[j].a
       => ~(hist[i].flag /\ hist[j].flag)
  /\ \A v \in Held(hist) :
       v.ty = "Tetrad" => ~(Tetrad_is_point(v) /\ Tetrad_is_vector(v))

\* C2's case: both predicates were called on one constructed point.
C2_Witness ==
  \E i \in Idx, j \in Idx :
    /\ hist[i].op = "Tetrad::is_point"
    /\ hist[j].op = "Tetrad::is_vector"
    /\ hist[i].a = hist[j].a
    /\ hist[i].a \in FreshPoints
    /\ hist[i].flag
    /\ ~hist[j].flag

\* C3: on Tetrads built by point() and vector(), + and - are component-wise
\* on x, y, z, and the result is what the point/vector algebra says:
\* vector + vector and vector - vector and point - point are vectors,
\* point + vector and point - vector are points, as is_point and is_vector
\* report.
C3_TetradAlgebra ==
  /\ \A i \in Idx :
       LET c == hist[i] IN
       /\ c.a \in FreshPoints \cup FreshVectors
       /\ c.b \in FreshPoints \cup FreshVectors
       =>
       /\ c.op = "Tetrad::add" =>
            /\ c.out.x = FAdd(c.a.x, c.b.x)
            /\ c.out.y = FAdd(c.a.y, c.b.y)
            /\ c.out.z = FAdd(c.a.z, c.b.z)
            /\ c.a \in FreshVectors /\ c.b \in FreshVectors
                 => Tetrad_is_vector(c.out) /\ ~Tetrad_is_point(c.out)
            /\ c.a \in FreshPoints /\ c.b \in FreshVectors
                 => Tetrad_is_point(c.out) /\ ~Tetrad_is_vector(c.out)
       /\ c.op = "Tetrad::sub" =>
            /\ c.out.x = FSub(c.a.x, c.b.x)
            /\ c.out.y = FSub(c.a.y, c.b.y)
            /\ c.out.z = FSub(c.a.z, c.b.z)
            /\ c.a \in FreshPoints /\ c.b \in FreshPoints
                 => Tetrad_is_vector(c.out) /\ ~Tetrad_is_point(c.out)
            /\ c.a \in FreshPoints /\ c.b \in FreshVectors
                 => Tetrad_is_point(c.out) /\ ~Tetrad_is_vector(c.out)
            /\ c.a \in FreshVectors /\ c.b \in FreshVectors
                 => Tetrad_is_vector(c.out) /\ ~Tetrad_is_point(c.out)
  /\ \A i \in Idx, j \in Idx :
       /\ i < j
       /\ hist[i].op = "Tetrad::sub"
       /\ hist[i].a \in FreshPoints
       /\ hist[i].b \in FreshPoints
       /\ hist[j].a = hist[i].out
       =>
       /\ hist[j].op = "Tetrad::is_vector" => hist[j].flag
       /\ hist[j].op = "Tetrad::is_point" => ~hist[j].flag

\* C3's case: point - point was computed and is_vector() called on the
\* difference.
C3_Witness ==
  \E i \in Idx, j \in Idx :
    /\ i < j
    /\ hist[i].op = "Tetrad::sub"
    /\ hist[i].a \in FreshPoints
    /\ hist[i].b \in FreshPoints
    /\ hist[i].a # hist[i].b
    /\ hist[j].op = "Tetrad::is_vector"
    /\ hist[j].a = hist[i].out
    /\ hist[j].flag

\* Call j undoes call i: (p + v) computed by i, then (p + v) - v by j.
TranslateBack(i, j) ==
  /\ i < j
  /\ hist[i].op = "Point + Vector"
  /\ hist[j].op = "Point - Vector"
  /\ hist[j].a = hist[i].out
  /\ hist[j].b = hist[i].b

\* C4 as stated: for all points p and vectors v, (p + v) - v is a Point
\* equal to p in all four components.
C4_RoundTripAlways ==
  \A i \in Idx, j \in Idx :
    TranslateBack(i, j) => Point_eq(hist[j].out, hist[i].a)

\* C4 as amended: (p + v) - v is a Point with w = 1.0, and it equals p in all
\* four components whenever the three sums p.x + v.x, p.y + v.y, p.z + v.z
\* are computed exactly (finite, no rounding).
C4_RoundTripWhenExact ==
  \A i \in Idx, j \in Idx :
    TranslateBack(i, j) =>
      /\ hist[j].out.ty = "Point"
      /\ hist[j].out.w = One
      /\ ( /\ ExactAdd(hist[i].a.x, hist[i].b.x)
           /\ ExactAdd(hist[i].a.y, hist[i].b.y)
           /\ ExactAdd(hist[i].a.z, hist[i].b.z)
           => Point_eq(hist[j].out, hist[i].a) )

\* C4's case: a point moved by a vector that changes it, with exact sums,
\* and moved back.
C4_Witness ==
  \E i \in Idx, j \in Idx :
    /\ TranslateBack(i, j)
    /\ ExactAdd(hist[i].a.x, hist[i].b.x)
    /\ ExactAdd(hist[i].a.y, hist[i].b.y)
    /\ ExactAdd(hist[i].a.z, hist[i].b.z)
    /\ ~Point_eq(hist[i].out, hist[i].a)
    /\ Point_eq(hist[j].out, hist[i].a)

\* Call j adds the displacement of call i back: p - q by i, then q + (p - q).
DisplaceBack(i, j) ==
  /\ i < j
  /\ hist[i].op = "Point - Point"
  /\ hist[j].op = "Point + Vector"
  /\ hist[j].a = hist[i].b
  /\ hist[j].b = hist[i].out

\* The part of C5 about p - q alone: a Vector, w = 0.0, component-wise.
DifferenceIsVector(c) ==
  c.op = "Point - Point" =>
    /\ c.out.ty = "Vector"
    /\ c.out.w = Zero
    /\ c.out.x = FSub(c.a.x, c.b.x)
    /\ c.out.y = FSub(c.a.y, c.b.y)
    /\ c.out.z = FSub(c.a.z, c.b.z)

\* C5 as stated: for all points p and q, p - q is a Vector (w = 0) holding
\* the component-wise difference, and q + (p - q) = p.
C5_DisplacementAlways ==
  /\ \A i \in Idx : DifferenceIsVector(hist[i])
  /\ \A i \in Idx, j \in Idx :
       DisplaceBack(i, j) => Point_eq(hist[j].out, hist[i].a)

\* C5 as amended: p - q is a Vector (w = 0) holding the component-wise
\* difference, and q + (p - q) = p whenever the three differences are
\* computed exactly (finite, no rounding).
C5_DisplacementWhenExact ==
  /\ \A i \in Idx : DifferenceIsVector(hist[i])
  /\ \A i \in Idx, j \in Idx :
       DisplaceBack(i, j) =>
         ( /\ ExactSub(hist[i].a.x, hist[i].b.x)
           /\ ExactSub(hist[i].a.y, hist[i].b.y)
           /\ ExactSub(hist[i].a.z, hist[i].b.z)
           => Point_eq(hist[j].out, hist[i].a) )

\* C5's case: two different points, an exact displacement, added back.
C5_Witness ==
  \E i \in Idx, j \in Idx :
    /\ DisplaceBack(i, j)
    /\ ExactSub(hist[i].a.x, hist[i].b.x)
    /\ ExactSub(hist[i].a.y, hist[i].b.y)
    /\ ExactSub(hist[i].a.z, hist[i].b.z)
    /\ ~Point_eq(hist[i].a, hist[i].b)
    /\ Point_eq(hist[j].out, hist[i].a)

\* Calls i and j are the two cross products of one pair of operands.
CrossBothWays(i, j) ==
  /\ hist[i].op \in {"Tetrad::cross", "Vector::cross"}
  /\ hist[j].op = hist[i].op
  /\ hist[j].a = hist[i].b
  /\ hist[j].b = hist[i].a

\* -v, by the negation of v's own type.
Negated(v) == IF v.ty = "Tetrad" THEN Tetrad_neg(v) ELSE Vector_neg(v)

\* C6 as stated: cross(a, b) equals -cross(b, a) for all a and b, in the
\* Tetrad implementation and in the Vector implementation (equality is the
\* derived PartialEq of both types).
C6_AnticommutativeAlways ==
  \A i \in Idx, j \in Idx :
    CrossBothWays(i, j) =>
      IF hist[i].op = "Tetrad::cross"
      THEN Tetrad_eq(hist[i].out, Negated(hist[j].out))
      ELSE Vector_eq(hist[i].out, Negated(hist[j].out))

\* C6 as amended: component by component, cross(a, b) and -cross(b, a) are
\* equal or are both NaN; so cross(a, b) equals -cross(b, a) whenever no
\* component of the product is NaN.
C6_AnticommutativeUnlessNaN ==
  \A i \in Idx, j \in Idx :
    CrossBothWays(i, j) =>
      LET l == hist[i].out
          r == Negated(hist[j].out)
      IN  /\ SameF64(l.x, r.x)
          /\ SameF64(l.y, r.y)
          /\ SameF64(l.z, r.z)
          /\ SameF64(l.w, r.w)
          /\ ~HasNaN(l) =>
               IF hist[i].op = "Tetrad::cross"
               THEN Tetrad_eq(l, r) ELSE Vector_eq(l, r)

\* C6's case: both products of two different vectors, with a component that
\* is neither zero nor NaN.
C6_Witness ==
  \E i \in Idx, j \in Idx :
    /\ CrossBothWays(i, j)
    /\ hist[i].op = "Vector::cross"
    /\ hist[i].a # hist[i].b
    /\ ~HasNaN(hist[i].out)
    /\ ~IsZero(hist[i].out.y)
    /\ Vector_eq(hist[i].out, Negated(hist[j].out))

\* Calls i and j are the two dot products of one pair of operands.
DotBothWays(i, j) ==
  /\ hist[i].op \in {"Tetrad::dot", "Vector::dot"}
  /\ hist[j].op = hist[i].op
  /\ hist[j].a = hist[i].b
  /\ hist[j].b = hist[i].a

\* The sum of the products of the four fields, in the order x, y, z, w.
SumOfProducts(a, b) ==
  FAdd(FAdd(FAdd(FMul(a.x, b.x), FMul(a.y, b.y)), FMul(a.z, b.z)),
       FMul(a.w, b.w))

\* C7 as stated: dot(a, b) = dot(b, a) for all a and b (equality of f64),
\* dot being the sum of the products of the four fields.
C7_CommutativeAlways ==
  /\ \A i \in Idx :
       hist[i].op \in {"Tetrad::dot", "Vector::dot"}
         => hist[i].num = SumOfProducts(hist[i].a, hist[i].b)
  /\ \A i \in Idx, j \in Idx :
       DotBothWays(i, j) => FEq(hist[i].num, hist[j].num)

\* C7 as amended: dot(a, b) and dot(b, a) are the same f64, the sum of the
\* products of the four fields: equal when it is a number, and NaN both
\* ways when it is NaN.
C7_CommutativeUnlessNaN ==
  /\ \A i \in Idx :
       hist[i].op \in {"Tetrad::dot", "Vector::dot"}
         => hist[i].num = SumOfProducts(hist[i].a, hist[i].b)
  /\ \A i \in Idx, j \in Idx :
       DotBothWays(i, j) =>
         /\ hist[i].num = hist[j].num
         /\ ~IsNaN(hist[i].num) => FEq(hist[i].num, hist[j].num)

\* C7's case: both dot products of two different vectors, not zero.
C7_Witness ==
  \E i \in Idx, j \in Idx :
    /\ DotBothWays(i, j)
    /\ i # j
    /\ hist[i].a # hist[i].b
    /\ IsNum(hist[i].num)
    /\ ~IsZero(hist[i].num)
    /\ FEq(hist[i].num, hist[j].num)

\* C8: Tetrad::cross(a, b) is (a.y*b.z - a.z*b.y, a.z*b.x - a.x*b.z,
\* a.x*b.y - a.y*b.x) with w = 0.0 whatever the operands' w, and the result
\* satisfies is_vector().
C8_CrossIsAVector ==
  \A i \in Idx :
    LET c == hist[i] IN
    c.op = "Tetrad::cross" =>
      /\ c.out.x = FSub(FMul(c.a.y, c.b.z), FMul(c.a.z, c.b.y))
      /\ c.out.y = FSub(FMul(c.a.z, c.b.x), FMul(c.a.x, c.b.z))
      /\ c.out.z = FSub(FMul(c.a.x, c.b.y), FMul(c.a.y, c.b.x))
      /\ c.out.w = Zero
      /\ Tetrad_is_vector(c.out)

\* C8's case: a cross product one of whose operands is neither a point nor
\* a vector (its w came out of an earlier call).
C8_Witness ==
  \E i \in Idx :
    /\ hist[i].op = "Tetrad::cross"
    /\ ~Tetrad_is_point(hist[i].a)
    /\ ~Tetrad_is_vector(hist[i].a)
    /\ Tetrad_is_point(hist[i].b)
    /\ Tetrad_is_vector(hist[i].out)

\* C9: unary negation is defined for vectors only: no negation offered takes
\* a point and returns its component-wise negation, so none returns a value
\* whose w is -1.0.
C9_NoNegatedPoint ==
  \A i \in Idx :
    hist[i].op \in {"Tetrad::neg", "-Vector"} =>
      /\ ~(hist[i].a \in FreshPoints)
      /\ ~FEq(hist[i].out.w, Lit(-1))

\* C10: addition of two points is not offered: in a session of additions on
\* constructed values no addition takes two points, and none returns a value
\* whose w is other than 0.0 or 1.0.
C10_NoPointPlusPoint ==
  (\A i \in Idx : hist[i].op \in {"Tetrad::add", "Vector + Vector", "Point + Vector"})
    => \A i \in Idx :
         /\ ~(hist[i].a \in FreshPoints /\ hist[i].b \in FreshPoints)
         /\ hist[i].out.w \in {Zero, One}

\* Some component of c lies outside [0, 1] or is not a number.
OutOfRange(c) ==
  \E x \in {c.r, c.g, c.b} : ~IsNum(x) \/ x.s = 1 \/ x.m > OneU

\* C11: the four RGB operators are component-wise on (r, g, b): c1 + c2 is
\* the sum, c1 - c2 the difference, c * s the product of each component
\* with s, c1 * c2 the component-wise product; operands are taken as they
\* are and results returned as computed, outside [0, 1] too.
C11_ComponentWise ==
  \A i \in Idx :
    LET c == hist[i] IN
    /\ c.op = "RGB + RGB" =>
         /\ c.out.r = FAdd(c.a.r, c.b.r)
         /\ c.out.g = FAdd(c.a.g, c.b.g)
         /\ c.out.b = FAdd(c.a.b, c.b.b)
    /\ c.op = "RGB - RGB" =>
         /\ c.out.r = FSub(c.a.r, c.b.r)
         /\ c.out.g = FSub(c.a.g, c.b.g)
         /\ c.out.b = FSub(c.a.b, c.b.b)
    /\ c.op = "RGB * f64" =>
         /\ c.out.r = FMul(c.a.r, c.f)
         /\ c.out.g = FMul(c.a.g, c.f)
         /\ c.out.b = FMul(c.a.b, c.f)
    /\ c.op = "RGB * RGB" =>
         /\ c.out.r = FMul(c.a.r, c.b.r)
         /\ c.out.g = FMul(c.a.g, c.b.g)
         /\ c.out.b = FMul(c.a.b, c.b.b)

\* C11's case: a product of two different colors, one of them returned by
\* an earlier call with a component outside [0, 1], whose own result is
\* outside [0, 1].
C11_Witness ==
  \E i \in Idx, j \in Idx :
    /\ i < j
    /\ hist[j].op = "RGB * RGB"
    /\ hist[j].a = hist[i].out
    /\ OutOfRange(hist[j].a)
    /\ ~RGB_eq(hist[j].a, hist[j].b)
    /\ hist[j].b.r # hist[j].b.g
    /\ OutOfRange(hist[j].out)
    /\ IsNum(hist[j].out.g)
    /\ ~IsZero(hist[j].out.g)

MagnitudeOf(v) ==
  IF v.ty = "Tetrad" THEN Tetrad_magnitude(v) ELSE Vector_magnitude(v)

NormalizeOps == {"Tetrad::normalize", "Vector::normalize"}
MagnitudeOps == {"Tetrad::magnitude", "Vector::magnitude"}

\* Call j measures what call i normalized.
NormalizeThenMagnitude(i, j) ==
  /\ i < j
  /\ hist[i].op \in NormalizeOps
  /\ hist[j].op \in MagnitudeOps
  /\ hist[j].a = hist[i].out

\* The float tolerance: four times the machine epsilon.
Tolerance == FMul(Lit(4), EPSILON)

\* |m - 1.0| <= Tolerance, in f64.
NearOne(m) ==
  LET e == FAbs(FSub(m, One))
  IN  FLt(e, Tolerance) \/ FEq(e, Tolerance)

\* normalize(v) is v divided component-wise by magnitude(v), and
\* normalize(vector(4, 0, 0)) is vector(1, 0, 0).
DividedByMagnitude(c) ==
  c.op \in NormalizeOps =>
    /\ c.out.ty = c.a.ty
    /\ c.out.x = FDiv(c.a.x, MagnitudeOf(c.a))
    /\ c.out.y = FDiv(c.a.y, MagnitudeOf(c.a))
    /\ c.out.z = FDiv(c.a.z, MagnitudeOf(c.a))
    /\ c.a = Vector_new(Lit(4), Zero, Zero)
         => c.out = Vector_new(One, Zero, Zero)
    /\ c.a = Tetrad_vector(Lit(4), Zero, Zero)
         => c.out = Tetrad_vector(One, Zero, Zero)

\* The square of c is computed without overflow and without underflow.
SquareInRange(c) ==
  /\ IsNum(c)
  /\ IsNum(FMul(c, c))
  /\ IsZero(c) \/ FMul(c, c).m >= Radix \div 2

\* v is a vector whose squares and their sum neither overflow nor
\* underflow, and whose magnitude is not zero.
WellScaled(v) ==
  /\ FEq(v.w, Zero)
  /\ SquareInRange(v.x)
  /\ SquareInRange(v.y)
  /\ SquareInRange(v.z)
  /\ IsNum(MagnitudeOf(v))
  /\ ~IsZero(MagnitudeOf(v))

\* C13 as stated: normalize(v) is v divided component-wise by magnitude(v),
\* normalize(vector(4,0,0)) = vector(1,0,0), and for every vector v with
\* magnitude(v) != 0 the magnitude of normalize(v) is 1 within the float
\* tolerance.
C13_UnitLengthAlways ==
  /\ \A i \in Idx : DividedByMagnitude(hist[i])
  /\ \A i \in Idx, j \in Idx :
       /\ NormalizeThenMagnitude(i, j)
       /\ FEq(hist[i].a.w, Zero)
       /\ ~FEq(MagnitudeOf(hist[i].a), Zero)
       => NearOne(hist[j].num)

\* Where C13 does hold: normalize(v) is v divided component-wise by
\* magnitude(v), normalize(vector(4,0,0)) = vector(1,0,0), and the magnitude
\* of normalize(v) is 1 within the float tolerance for every vector v with
\* magnitude(v) != 0 whose squares x*x, y*y, z*z and their sum are computed
\* without overflow and without underflow.
C13_UnitLengthWhenWellScaled ==
  /\ \A i \in Idx : DividedByMagnitude(hist[i])
  /\ \A i \in Idx, j \in Idx :
       /\ NormalizeThenMagnitude(i, j)
       /\ WellScaled(hist[i].a)
       => NearOne(hist[j].num)

\* The case of C13 that holds: a well-scaled vector with two non-zero coordinates and a
\* magnitude other than 1 was normalized into a different vector, whose
\* magnitude was then measured as 1 within the tolerance.
C13_Witness ==
  \E i \in Idx, j \in Idx :
    /\ NormalizeThenMagnitude(i, j)
    /\ WellScaled(hist[i].a)
    /\ ~IsZero(hist[i].a.x)
    /\ ~IsZero(hist[i].a.y)
    /\ ~FEq(MagnitudeOf(hist[i].a), One)
    /\ hist[i].out # hist[i].a
    /\ NearOne(hist[j].num)
====
